---- MODULE Spec2Model ----
(***************************************************************************)
(* A state-machine model of src/src/CausalityClass.py: the class           *)
(* CausalityClass with its dataset builder (generate_dataframe), its       *)
(* offset sampler (generate_random_indices) and its bootstrap loop         *)
(* (bootrstapping).                                                        *)
(*                                                                         *)
(* Variable names are modelled as integers; the order of the integers is   *)
(* the lexicographic order in which numpy sorts the name strings.  The     *)
(* observation of variable v at time step t (1-based) is the number        *)
(* 10*v + t, so that every cell of a dataset identifies the series and     *)
(* the time step it was read from.                                         *)
(*                                                                         *)
(* Tigramite's PCMCI and LinearMediation are external libraries: their     *)
(* results are represented by a digest of the dataset they were computed   *)
(* on, and either call may raise.                                          *)
(***************************************************************************)
EXTENDS Integers, Sequences, FiniteSets, TLC

\* Bounds of the model.
MaxVars == 4        \* at most this many named series in the mapping D
MaxT == 3           \* series lengths range over 1 .. MaxT (+1 for the odd one)
MaxMonths == 2      \* range_months = [1, h] with h in 0 .. MaxMonths
MaxIter == 2        \* boot_iters ranges over 0 .. MaxIter

\* Program constants.
SEED == 113         \* np.random.seed(113)
FormatSlots == 4    \* "X=%.2f, Y=%.2f, Z=%.2f, Q=%.2f" has four conversions

VARIABLES
    D,                \* self.D: the source mapping, in insertion order
    D0,               \* the mapping as it was handed to __init__
    var_names,        \* self.var_names
    range_months,     \* self.range_months
    boot_iter,        \* self.boot_iter
    linear_mediator,  \* self.linear_mediator
    rng_state,        \* the process-wide state of numpy's legacy generator
    files,            \* the files written so far (name and content)
    pc,               \* position of the caller / of bootrstapping
    rnd_inds,         \* bootrstapping: rnd_inds
    k,                \* bootrstapping: number of loop iterations completed
    dataframe,        \* bootrstapping: dataframe
    sig_parents,      \* bootrstapping: sig_parents
    val_matrix,       \* bootrstapping: val_matrix
    all_val_matrices, \* bootrstapping: all_val_matrices
    all_ace,          \* bootrstapping: all_ace
    all_acs,          \* bootrstapping: all_acs
    printed,          \* the index-to-name labels printed by the call in progress
    err,              \* the exception that ended the current call, if any
    saved,            \* number of np.savez calls of the current bootstrap run
    prev_inds,        \* the offsets drawn by the previous bootstrap run
    call_arg,         \* argument D of a direct generate_dataframe call
    ret               \* what the direct generate_dataframe call returned

vars == <<D, D0, var_names, range_months, boot_iter, linear_mediator, rng_state,
          files, pc, rnd_inds, k, dataframe, sig_parents, val_matrix,
          all_val_matrices, all_ace, all_acs, printed, err, saved, prev_inds,
          call_arg, ret>>

----------------------------------------------------------------------------
(* Python and numpy helpers *)

Range(s) == {s[i] : i \in 1..Len(s)}

\* The series container of variable v with L observations.
Series(v, L) == [t \in 1..L |-> 10 * v + t]

\* list(D.keys()): the keys in insertion order.
Keys(M) == [i \in 1..Len(M) |-> M[i].key]

\* D[key].variables[key].values
Get(M, key) == M[CHOOSE i \in 1..Len(M) : M[i].key = key].values

RECURSIVE Insert(_, _)
Insert(x, s) ==
    IF s = <<>> THEN <<x>>
    ELSE IF x <= Head(s) THEN <<x>> \o s
    ELSE <<Head(s)>> \o Insert(x, Tail(s))

RECURSIVE sort(_)
sort(s) == IF s = <<>> THEN <<>> ELSE Insert(Head(s), sort(Tail(s)))

\* np.unique: sort, then keep the first element of every run of equal ones.
unique(ar) ==
    LET s == sort(ar)
    IN  SelectSeq([i \in 1..Len(s) |-> <<s[i], i = 1 \/ s[i] # s[i - 1]>>],
                  LAMBDA p : p[2])

\* An intersection that keeps the order of its first argument (no sorting).
IntersectInOrder(ar1, ar2) == SelectSeq(ar1, LAMBDA x : x \in Range(ar2))

\* np.intersect1d: unique both, concatenate, sort, keep each element that is
\* followed by an equal one.
intersect1d(ar1, ar2) ==
    LET u1 == unique(ar1)
        u2 == unique(ar2)
        aux == sort([i \in 1..Len(u1) |-> u1[i][1]] \o [i \in 1..Len(u2) |-> u2[i][1]])
        marked == [i \in 1..Len(aux) |-> <<aux[i], i < Len(aux) /\ aux[i + 1] = aux[i]>>]
        kept == SelectSeq(marked, LAMBDA p : p[2])
    IN  [i \in 1..Len(kept) |-> kept[i][1]]

\* np.vstack raises ValueError on an empty list and on rows of unequal length.
vstack_ok(dataset) ==
    /\ Len(dataset) > 0
    /\ \A i \in 1..Len(dataset) : Len(dataset[i]) = Len(dataset[1])

\* np.vstack(dataset).transpose(): one row per time step, one column per series.
vstack_transpose(dataset) ==
    [t \in 1..Len(dataset[1]) |-> [i \in 1..Len(dataset) |-> dataset[i][t]]]

\* A dataset builder that cuts every series to the shortest one.
generate_dataframe_truncating(self_var_names, M) ==
    LET matched_indexes == intersect1d(self_var_names, Keys(M))
        dataset == [i \in 1..Len(matched_indexes) |-> Get(M, matched_indexes[i])]
        T == IF Len(dataset) = 0 THEN 0
             ELSE CHOOSE m \in {Len(dataset[i]) : i \in 1..Len(dataset)} :
                      \A i \in 1..Len(dataset) : m <= Len(dataset[i])
    IN  [exc |-> "None",
         values |-> [t \in 1..T |-> [i \in 1..Len(dataset) |-> dataset[i][t]]],
         var_names |-> matched_indexes]

\* CausalityClass.generate_dataframe without its plot side effect: the
\* returned (dataframe, matched_indexes), or the exception vstack raises.
generate_dataframe(self_var_names, M) ==
    LET matched_indexes == intersect1d(self_var_names, Keys(M))
        dataset == [i \in 1..Len(matched_indexes) |-> Get(M, matched_indexes[i])]
    IN  IF vstack_ok(dataset)
        THEN [exc |-> "None", values |-> vstack_transpose(dataset),
              var_names |-> matched_indexes]
        ELSE [exc |-> "ValueError", values |-> <<>>, var_names |-> <<>>]

\* np.delete(values, rng, axis=0) for indices that are all in bounds, and what
\* numpy before 1.19 returns when some are not (they are ignored): the rows
\* whose 0-based index is not in rng, in their order.
delete(values, rng) ==
    LET marked == [t \in 1..Len(values) |-> <<values[t], (t - 1) \notin rng>>]
        kept == SelectSeq(marked, LAMBDA p : p[2])
    IN  [t \in 1..Len(kept) |-> kept[t][1]]

\* Whether np.delete finds every index of rng inside the array.
delete_in_bounds(values, rng) == \A i \in rng : i < Len(values)

\* len(list(range(lo, hi + 1)))
n_mons(rm) == IF rm[2] + 1 - rm[1] > 0 THEN rm[2] + 1 - rm[1] ELSE 0

\* list(range(0, T, 1)): every time step is a candidate offset.
sample_size_every_step(T, step) == [i \in 1..T |-> i - 1]

\* list(range(0, T, step)) for step >= 1
sample_size(T, step) == [i \in 1..((T + step - 1) \div step) |-> (i - 1) * step]

----------------------------------------------------------------------------
(* numpy's legacy generator: MT19937 seeded with init_genrand(113) *)

\* The low 16 bits of the first 64 32-bit outputs after np.random.seed(113).
\* The bounded draw below masks every output with a mask below 2^16.
MT113 == <<47269, 37596, 22690, 30282, 16236, 43778, 2710, 791,
           31997, 47344, 27641, 44896, 6703, 2018, 3948, 62682,
           12767, 43015, 28987, 27067, 45300, 16367, 2821, 20453,
           14566, 62961, 53124, 11033, 23253, 61509, 40971, 44334,
           63459, 18951, 8151, 26876, 869, 28048, 30731, 18719,
           3521, 61182, 2881, 41751, 65433, 7563, 8592, 15873,
           22802, 64779, 41361, 45141, 44221, 22039, 37256, 37161,
           48183, 23255, 17409, 7997, 63793, 51385, 44727, 2788>>

\* A generator that is seeded only if it has not been seeded before.
seed_once(st) == IF st.seed = SEED THEN st ELSE [seed |-> SEED, pos |-> 0]

\* np.random.seed(113)
seed(st) == [seed |-> SEED, pos |-> 0]

\* The smallest 2^j - 1 that is >= rng.
RECURSIVE gen_mask(_, _)
gen_mask(rng, m) == IF m >= rng THEN m ELSE gen_mask(rng, 2 * m + 1)

\* One bounded draw in 0 .. rng (rng >= 1): outputs are masked and rejected
\* until one is <= rng.  Returns the value and the new stream position.
RECURSIVE bounded_draw(_, _, _)
bounded_draw(rng, mask, pos) ==
    LET val == MT113[pos + 1] % (mask + 1)
    IN  IF val <= rng THEN <<val, pos + 1>> ELSE bounded_draw(rng, mask, pos + 1)

\* np.random.choice(a, size=n, replace=True) on a non-empty a: n draws of
\* randint(0, len(a)); a range of one value consumes no output.
RECURSIVE choice(_, _, _)
choice(a, n, pos) ==
    IF n = 0 THEN [inds |-> <<>>, pos |-> pos]
    ELSE IF Len(a) = 1
         THEN LET rest == choice(a, n - 1, pos)
              IN  [inds |-> <<a[1]>> \o rest.inds, pos |-> rest.pos]
         ELSE LET d == bounded_draw(Len(a) - 1, gen_mask(Len(a) - 1, 1), pos)
                  rest == choice(a, n - 1, d[2])
              IN  [inds |-> <<a[d[1] + 1]>> \o rest.inds, pos |-> rest.pos]

----------------------------------------------------------------------------
(* The external estimators, by what they were computed on *)

\* The first column of a dataset: which time steps it holds, in which order.
Digest(values) == [t \in 1..Len(values) |-> values[t][1]]

NoDataframe == [exc |-> "unset", values |-> <<>>, var_names |-> <<>>]
NoParents == [set |-> FALSE, n |-> 0, on |-> <<>>]
NoMediator == [fitted |-> FALSE, n |-> 0, on |-> <<>>, parents_on |-> <<>>]
NoValMatrix == [set |-> FALSE, n |-> 0, on |-> <<>>]
NoErr == [exc |-> "None", at |-> "None"]
NoPrev == [has |-> FALSE, inds |-> <<>>]

\* PCMCI(...).return_significant_parents on this dataframe
construct_causal_graph(df) ==
    [set |-> TRUE, n |-> Len(df.var_names), on |-> Digest(df.values)]

\* LinearMediation(dataframe).fit_model(all_parents)
linear_estimator(sp, df) ==
    [fitted |-> TRUE, n |-> Len(df.var_names), on |-> Digest(df.values),
     parents_on |-> sp.on]

\* med.get_val_matrix()
get_val_matrix(med) == [set |-> TRUE, n |-> med.n, on |-> med.on]

\* med.get_all_ace() and med.get_all_acs(): one entry per variable
get_all_ace(med) == [kind |-> "ace", len |-> med.n, on |-> med.on]
get_all_acs(med) == [kind |-> "acs", len |-> med.n, on |-> med.on]

\* get_links_beta_coeffs: for v, i in zip(names, range(n)): print(i, v)
get_links_beta_coeffs(names) == [i \in 1..Len(names) |-> <<i - 1, names[i]>>]

\* A report that joins however many values there are.
format_any(slots, args_len) == TRUE

\* "...%.2f..." % tuple(vec) succeeds only with one value per conversion.
percent_format(slots, args_len) == args_len = slots

\* self.path + 'bootstrap' + "_".join(self.var_names)
archive_name(names) == <<"bootstrap", names>>

\* Writing a file replaces the file of the same name.
write_file(fs, name, content) ==
    {f \in fs : f.name # name} \cup {[name |-> name, content |-> content]}

\* A loop that reuses the dataframe of the iteration before.
iteration_dataframe_reused(self_var_names, M, prev) ==
    IF prev.exc = "None" THEN prev ELSE generate_dataframe(self_var_names, M)

\* Line 286: every iteration builds its dataframe from self.D.
iteration_dataframe(self_var_names, M, prev) == generate_dataframe(self_var_names, M)

\* An exception that is swallowed: the loop goes on.
swallow(at) == "loop"

\* bootrstapping has no try/except: an exception leaves the method.
raise(at) == "raised"

----------------------------------------------------------------------------
(* generate_random_indices *)

\* CausalityClass.generate_random_indices: the generator is seeded first; the
\* length is read from the first key of self.D; range() refuses a step of 0;
\* choice refuses an empty population unless no sample is taken.
generate_random_indices(self_D, rm, n_iter, st) ==
    LET st1 == seed(st)
        step == n_mons(rm)
    IN  IF Len(self_D) = 0
        THEN [exc |-> "IndexError", inds |-> <<>>, st |-> st1]
        ELSE IF step = 0
        THEN [exc |-> "ValueError", inds |-> <<>>, st |-> st1]
        ELSE LET a == sample_size(Len(Get(self_D, Keys(self_D)[1])), step)
             IN  IF Len(a) = 0 /\ n_iter > 0
                 THEN [exc |-> "ValueError", inds |-> <<>>, st |-> st1]
                 ELSE LET c == choice(a, n_iter, st1.pos)
                      IN  [exc |-> "None", inds |-> c.inds,
                           st |-> [seed |-> st1.seed, pos |-> c.pos]]

\* CausalityClass.plot_time_series: the plot of the dataframe is saved as
\* save_path + 'timeseries_data_plot'.
plot_time_series(fs, df) ==
    write_file(fs, <<"timeseries_data_plot", <<>>>>, df.var_names)

\* generate_dataframe, line 86: the time series are plotted when boot_iter is 0.
generate_dataframe_plot(fs, n_iter, df) ==
    IF n_iter = 0 /\ df.exc = "None" THEN plot_time_series(fs, df) ELSE fs

\* CausalityClass.plot_cens_graph: with save the graph is drawn with the node
\* labels self.var_names and saved as save_path + 'cen' + "_".join(self.var_names);
\* without save only an empty figure is created.
plot_cens_graph(fs, names, save) ==
    IF save THEN write_file(fs, <<"cen", names>>, names) ELSE fs

----------------------------------------------------------------------------
(* The inputs *)

Rot(s, r) == [i \in 1..Len(s) |-> s[((i - 1 + r) % Len(s)) + 1]]

\* Insertion orders of the names 1 .. N: the sorted order, the sorted order
\* rotated by one, and the reversed order.
Orders(N) ==
    IF N = 0 THEN {<<>>}
    ELSE {[i \in 1..N |-> i], Rot([i \in 1..N |-> i], 1), [i \in 1..N |-> N + 1 - i]}

\* The mapping with the keys o, all series of length T but the series of name
\* odd (if any), which has one observation more.
Mapping(o, T, odd) ==
    [i \in 1..Len(o) |->
        [key |-> o[i], values |-> Series(o[i], IF o[i] = odd THEN T + 1 ELSE T)]]

Mappings ==
    {Mapping(o, T, odd) :
        o \in UNION {Orders(N) : N \in 0..MaxVars}, T \in 1..MaxT, odd \in 0..1}

\* A series under a name that is not configured.
Foreign == <<[key |-> 0, values |-> Series(0, 1)]>>

\* Mappings a caller hands to generate_dataframe: the empty mapping, D, or D
\* without its first entry, each with or without a foreign entry after it.
ArgMappings(M) ==
    {X \o f : X \in {<<>>, M, SubSeq(M, 2, Len(M))}, f \in {<<>>, Foreign}}

----------------------------------------------------------------------------
(* The state machine *)

\* The locals of bootrstapping at its start (lines 277-279).
LocalsReset ==
    /\ k' = 0
    /\ dataframe' = NoDataframe
    /\ sig_parents' = NoParents
    /\ val_matrix' = NoValMatrix
    /\ all_val_matrices' = <<>>
    /\ all_ace' = <<>>
    /\ all_acs' = <<>>

\* __init__: the object after construction on a mapping D.
Init ==
    /\ D \in Mappings
    /\ D0 = D
    /\ var_names = Keys(D)
    /\ range_months \in {<<1, h>> : h \in 0..MaxMonths}
    /\ boot_iter \in 0..MaxIter
    /\ linear_mediator = NoMediator
    /\ rng_state = [seed |-> 0, pos |-> 0]   \* not yet seeded by this class
    /\ files = {}
    /\ pc = "idle"
    /\ rnd_inds = <<>>
    /\ k = 0
    /\ dataframe = NoDataframe
    /\ sig_parents = NoParents
    /\ val_matrix = NoValMatrix
    /\ all_val_matrices = <<>>
    /\ all_ace = <<>>
    /\ all_acs = <<>>
    /\ printed = <<>>
    /\ err = NoErr
    /\ saved = 0
    /\ prev_inds = NoPrev
    /\ call_arg = <<>>
    /\ ret = NoDataframe

\* A caller invokes generate_dataframe(M) on the object.
call_generate_dataframe ==
    /\ pc = "idle"
    /\ \E M \in ArgMappings(D) :
          /\ call_arg' = M
          /\ ret' = generate_dataframe(var_names, M)
    /\ files' = generate_dataframe_plot(files, boot_iter, ret')
    /\ err' = IF ret'.exc = "None" THEN NoErr
              ELSE [exc |-> ret'.exc, at |-> "generate_dataframe"]
    /\ pc' = "df_returned"
    /\ UNCHANGED <<D, D0, var_names, range_months, boot_iter, linear_mediator,
                   rng_state, rnd_inds, k, dataframe, sig_parents, val_matrix,
                   all_val_matrices, all_ace, all_acs, printed, saved, prev_inds>>

\* The caller drops the result and is ready for the next call.
return_generate_dataframe ==
    /\ pc = "df_returned"
    /\ pc' = "idle"
    /\ call_arg' = <<>>
    /\ ret' = NoDataframe
    /\ err' = NoErr
    /\ UNCHANGED <<D, D0, var_names, range_months, boot_iter, linear_mediator,
                   rng_state, files, rnd_inds, k, dataframe, sig_parents,
                   val_matrix, all_val_matrices, all_ace, all_acs, printed, saved,
                   prev_inds>>

\* A caller invokes plot_cens_graph(val_matrix, link_matrix, save).
call_plot_cens_graph ==
    /\ pc = "idle"
    /\ \E save \in BOOLEAN : files' = plot_cens_graph(files, var_names, save)
    /\ UNCHANGED <<D, D0, var_names, range_months, boot_iter, linear_mediator,
                   rng_state, pc, rnd_inds, k, dataframe, sig_parents, val_matrix,
                   all_val_matrices, all_ace, all_acs, printed, err, saved,
                   prev_inds, call_arg, ret>>

\* A caller invokes plot_time_series(dataframe) with a dataframe it obtained
\* from generate_dataframe.
call_plot_time_series ==
    /\ pc = "idle"
    /\ \E M \in ArgMappings(D) :
          LET df == generate_dataframe(var_names, M)
          IN  /\ df.exc = "None"
              /\ files' = plot_time_series(files, df)
    /\ UNCHANGED <<D, D0, var_names, range_months, boot_iter, linear_mediator,
                   rng_state, pc, rnd_inds, k, dataframe, sig_parents, val_matrix,
                   all_val_matrices, all_ace, all_acs, printed, err, saved,
                   prev_inds, call_arg, ret>>

\* A caller invokes linear_estimator(sig_parents, dataframe) with a dataframe
\* it obtained from generate_dataframe and the parents construct_causal_graph
\* returned for it; the library may raise in fit_model.
call_linear_estimator ==
    /\ pc = "idle"
    /\ \E M \in ArgMappings(D) :
          LET df == generate_dataframe(var_names, M)
              med == linear_estimator(construct_causal_graph(df), df)
          IN  /\ df.exc = "None"
              /\ \/ linear_mediator' = med
                 \/ linear_mediator' = [med EXCEPT !.fitted = FALSE]
    /\ UNCHANGED <<D, D0, var_names, range_months, boot_iter, rng_state, files,
                   pc, rnd_inds, k, dataframe, sig_parents, val_matrix,
                   all_val_matrices, all_ace, all_acs, printed, err, saved,
                   prev_inds, call_arg, ret>>

\* A caller invokes get_links_beta_coeffs(): the labels are printed, then the
\* coefficients are read from self.linear_mediator, which fails on None and
\* on an estimator that was never fitted.
call_get_links_beta_coeffs ==
    /\ pc = "idle"
    /\ printed' = get_links_beta_coeffs(var_names)
    /\ err' = IF linear_mediator.fitted THEN NoErr
              ELSE [exc |-> "AttributeError", at |-> "get_links_beta_coeffs"]
    /\ pc' = "returned"
    /\ UNCHANGED <<D, D0, var_names, range_months, boot_iter, linear_mediator,
                   rng_state, files, rnd_inds, k, dataframe, sig_parents,
                   val_matrix, all_val_matrices, all_ace, all_acs, saved,
                   prev_inds, call_arg, ret>>

\* get_links_beta_coeffs is back at its caller, with or without its exception.
return_get_links_beta_coeffs ==
    /\ pc = "returned"
    /\ pc' = "idle"
    /\ printed' = <<>>
    /\ err' = NoErr
    /\ UNCHANGED <<D, D0, var_names, range_months, boot_iter, linear_mediator,
                   rng_state, files, rnd_inds, k, dataframe, sig_parents,
                   val_matrix, all_val_matrices, all_ace, all_acs, saved,
                   prev_inds, call_arg, ret>>

\* A caller invokes generate_random_indices(): the generator is reseeded and
\* advanced by the draws; the offsets go to the caller.
call_generate_random_indices ==
    /\ pc = "idle"
    /\ rng_state' = generate_random_indices(D, range_months, boot_iter, rng_state).st
    /\ UNCHANGED <<D, D0, var_names, range_months, boot_iter, linear_mediator,
                   files, pc, rnd_inds, k, dataframe, sig_parents, val_matrix,
                   all_val_matrices, all_ace, all_acs, printed, err, saved,
                   prev_inds, call_arg, ret>>

\* bootrstapping, lines 277-281: the accumulators are emptied and the offsets drawn.
bootrstapping_begin ==
    /\ pc = "idle"
    /\ LocalsReset
    /\ saved' = 0
    /\ LET r == generate_random_indices(D, range_months, boot_iter, rng_state)
       IN  /\ rng_state' = r.st
           /\ rnd_inds' = r.inds
           /\ IF r.exc = "None"
              THEN pc' = "loop" /\ err' = NoErr
              ELSE /\ pc' = raise("generate_random_indices")
                   /\ err' = [exc |-> r.exc, at |-> "generate_random_indices"]
    /\ UNCHANGED <<D, D0, var_names, range_months, boot_iter, linear_mediator,
                   files, printed, prev_inds, call_arg, ret>>

\* Line 286: the dataframe of the iteration.
iter_generate_dataframe ==
    /\ pc = "loop"
    /\ k < Len(rnd_inds)
    /\ LET df == iteration_dataframe(var_names, D, dataframe)
       IN  /\ files' = generate_dataframe_plot(files, boot_iter, df)
           /\ IF df.exc = "None"
              THEN dataframe' = df /\ pc' = "built" /\ err' = err
              ELSE /\ dataframe' = dataframe
                   /\ pc' = raise("generate_dataframe")
                   /\ err' = [exc |-> df.exc, at |-> "generate_dataframe"]
    /\ UNCHANGED <<D, D0, var_names, range_months, boot_iter, linear_mediator,
                   rng_state, rnd_inds, k, sig_parents, val_matrix,
                   all_val_matrices, all_ace, all_acs, printed, saved, prev_inds,
                   call_arg, ret>>

\* Lines 289-296: one year is deleted from the dataframe.  With an index
\* past the end np.delete raises IndexError (numpy >= 1.19) or ignores the
\* index (older numpy).
iter_delete ==
    /\ pc = "built"
    /\ LET i == rnd_inds[k + 1]
           rng == i..(i + n_mons(range_months) - 1)
       IN  \/ /\ delete_in_bounds(dataframe.values, rng)
              /\ dataframe' = [dataframe EXCEPT !.values = delete(dataframe.values, rng)]
              /\ pc' = "deleted"
              /\ err' = err
           \/ /\ ~delete_in_bounds(dataframe.values, rng)
              /\ dataframe' = dataframe
              /\ pc' = raise("np.delete")
              /\ err' = [exc |-> "IndexError", at |-> "np.delete"]
           \/ /\ ~delete_in_bounds(dataframe.values, rng)
              /\ dataframe' = [dataframe EXCEPT !.values = delete(dataframe.values, rng)]
              /\ pc' = "deleted"
              /\ err' = err
    /\ UNCHANGED <<D, D0, var_names, range_months, boot_iter, linear_mediator,
                   rng_state, files, rnd_inds, k, sig_parents, val_matrix,
                   all_val_matrices, all_ace, all_acs, printed, saved, prev_inds,
                   call_arg, ret>>

\* Line 299: causal search on the reduced dataframe; the library may raise.
iter_construct_causal_graph ==
    /\ pc = "deleted"
    /\ \/ /\ sig_parents' = construct_causal_graph(dataframe)
          /\ pc' = "searched"
          /\ err' = err
       \/ /\ sig_parents' = sig_parents
          /\ pc' = raise("construct_causal_graph")
          /\ err' = [exc |-> "Exception", at |-> "construct_causal_graph"]
    /\ UNCHANGED <<D, D0, var_names, range_months, boot_iter, linear_mediator,
                   rng_state, files, rnd_inds, k, dataframe, val_matrix,
                   all_val_matrices, all_ace, all_acs, printed, saved, prev_inds,
                   call_arg, ret>>

\* Lines 300-303: the mediation fit; the library may raise in fit_model, after
\* self.linear_mediator was assigned the new, unfitted estimator.
iter_linear_estimator ==
    /\ pc = "searched"
    /\ \/ /\ linear_mediator' = linear_estimator(sig_parents, dataframe)
          /\ val_matrix' = get_val_matrix(linear_mediator')
          /\ pc' = "fitted"
          /\ err' = err
       \/ /\ linear_mediator' =
                 [linear_estimator(sig_parents, dataframe) EXCEPT !.fitted = FALSE]
          /\ val_matrix' = val_matrix
          /\ pc' = raise("linear_estimator")
          /\ err' = [exc |-> "Exception", at |-> "linear_estimator"]
    /\ UNCHANGED <<D, D0, var_names, range_months, boot_iter, rng_state, files,
                   rnd_inds, k, dataframe, sig_parents, all_val_matrices, all_ace,
                   all_acs, printed, saved, prev_inds, call_arg, ret>>

\* Lines 306-314: the labels are printed, the results appended, and the two
\* metric vectors reported through the four-slot format.
iter_record ==
    /\ pc = "fitted"
    /\ printed' = get_links_beta_coeffs(var_names)
    /\ all_val_matrices' = Append(all_val_matrices, val_matrix)
    /\ all_ace' = Append(all_ace, get_all_ace(linear_mediator))
    /\ all_acs' = Append(all_acs, get_all_acs(linear_mediator))
    /\ IF /\ percent_format(FormatSlots, get_all_ace(linear_mediator).len)
          /\ percent_format(FormatSlots, get_all_acs(linear_mediator).len)
       THEN k' = k + 1 /\ pc' = "loop" /\ err' = err
       ELSE /\ k' = k
            /\ pc' = raise("report")
            /\ err' = [exc |-> "TypeError", at |-> "report"]
    /\ UNCHANGED <<D, D0, var_names, range_months, boot_iter, linear_mediator,
                   rng_state, files, rnd_inds, dataframe, sig_parents, val_matrix,
                   saved, prev_inds, call_arg, ret>>

\* Line 317: after the loop the archive is written.
save_archive ==
    /\ pc = "loop"
    /\ k >= Len(rnd_inds)
    /\ files' = write_file(files, archive_name(var_names),
                           [indices |-> rnd_inds, coeffs |-> all_val_matrices,
                            all_ace |-> all_ace, all_acs |-> all_acs])
    /\ saved' = saved + 1
    /\ pc' = "done"
    /\ UNCHANGED <<D, D0, var_names, range_months, boot_iter, linear_mediator,
                   rng_state, rnd_inds, k, dataframe, sig_parents, val_matrix,
                   all_val_matrices, all_ace, all_acs, printed, err, prev_inds,
                   call_arg, ret>>

\* bootrstapping returns or its exception reaches the caller; the caller may
\* call again.  The offsets of the run are remembered.
return_bootrstapping ==
    /\ pc \in {"done", "raised"}
    /\ pc' = "idle"
    /\ prev_inds' = IF err.at = "generate_random_indices" THEN prev_inds
                    ELSE [has |-> TRUE, inds |-> rnd_inds]
    /\ rnd_inds' = <<>>
    /\ LocalsReset
    /\ printed' = <<>>
    /\ err' = NoErr
    /\ saved' = 0
    /\ UNCHANGED <<D, D0, var_names, range_months, boot_iter, linear_mediator,
                   rng_state, files, call_arg, ret>>

Next ==
    \/ call_generate_dataframe
    \/ return_generate_dataframe
    \/ call_plot_cens_graph
    \/ call_plot_time_series
    \/ call_linear_estimator
    \/ call_get_links_beta_coeffs
    \/ return_get_links_beta_coeffs
    \/ call_generate_random_indices
    \/ bootrstapping_begin
    \/ iter_generate_dataframe
    \/ iter_delete
    \/ iter_construct_causal_graph
    \/ iter_linear_estimator
    \/ iter_record
    \/ save_archive
    \/ return_bootrstapping

Spec == Init /\ [][Next]_vars

----------------------------------------------------------------------------
(* What the claims speak of *)

\* The block size of the run and the length of the series the offsets are
\* drawn for.
B == n_mons(range_months)
T == IF Len(D) = 0 THEN 0 ELSE Len(D[1].values)

\* The offsets of the current bootstrap run have been drawn.
Drawn ==
    \/ pc \in {"loop", "built", "deleted", "searched", "fitted", "done"}
    \/ pc = "raised" /\ err.at # "generate_random_indices"

\* The elements of a set of numbers in increasing order.
Ascending(S) ==
    [i \in 1..Cardinality(S) |->
        CHOOSE x \in S : Cardinality({y \in S : y < x}) = i - 1]

\* The full dataset of a mapping whose series all have L observations: row t
\* holds observation t of every name, the names in increasing order.
FullRows(M, L) ==
    LET names == Ascending(Range(Keys(M)))
    IN  [t \in 1..L |-> [i \in 1..Len(names) |-> 10 * names[i] + t]]

\* The rows of a dataset outside the block [off, off + B), in their order.
WithoutBlock(rows, off) ==
    SelectSeq(rows, LAMBDA r : (r[1] % 10) - 1 < off \/ (r[1] % 10) - 1 >= off + B)

\* The archive of this object, if it was written.
Archives == {f \in files : f.name[1] = "bootstrap"}

\* C1: once the offsets of a run with n_iter >= 1 are drawn there are exactly
\* n_iter of them, each a multiple of the block size and smaller than the
\* series length; the archive of a completed run holds exactly n_iter entries
\* in indices, coeffs, all_ace and all_acs, and the j-th coefficient, ACE and
\* ACS entry was computed on the dataset without the block at the j-th offset.
C1_OffsetsAndCollection ==
    /\ (Drawn /\ boot_iter >= 1) =>
          /\ Len(rnd_inds) = boot_iter
          /\ \A j \in 1..Len(rnd_inds) :
                /\ rnd_inds[j] % B = 0
                /\ 0 <= rnd_inds[j] /\ rnd_inds[j] < T
    /\ (pc = "done" /\ boot_iter >= 1) =>
          \A f \in Archives :
             /\ f.content.indices = rnd_inds
             /\ Len(f.content.indices) = boot_iter
             /\ Len(f.content.coeffs) = boot_iter
             /\ Len(f.content.all_ace) = boot_iter
             /\ Len(f.content.all_acs) = boot_iter
             /\ \A j \in 1..boot_iter :
                   LET on == Digest(WithoutBlock(FullRows(D, T), rnd_inds[j]))
                   IN  /\ f.content.coeffs[j].on = on
                       /\ f.content.all_ace[j].on = on
                       /\ f.content.all_acs[j].on = on

\* A completed run of two iterations that drew two different offsets.
C1_Witness ==
    /\ pc = "done"
    /\ boot_iter >= 2
    /\ rnd_inds[1] # rnd_inds[2]
    /\ Archives # {}

\* C2: after the deletion step of an iteration the dataframe is the full
\* dataset without the block_size rows [offset, offset + block_size): it has
\* T - block_size rows, the others in their order; the step does not fail.
C2_ExactlyOneBlockRemoved ==
    /\ pc = "deleted" =>
          /\ Len(dataframe.values) = T - B
          /\ dataframe.values = WithoutBlock(FullRows(D, T), rnd_inds[k + 1])
    /\ pc = "raised" => err.at # "np.delete"

\* C3: with boot_iter = 0 bootrstapping writes no archive.
C3_NoArchiveWithoutIterations == boot_iter = 0 => (saved = 0 /\ Archives = {})

\* C4: the printed index-to-name labels, the node labels and the file name of
\* the graph plot, and the archive file name list the names in the sorted
\* order generate_dataframe returns.
C4_NamesInSortedOrder ==
    LET names == Ascending(Range(Keys(D)))
    IN  /\ printed # <<>> => printed = [i \in 1..Len(names) |-> <<i - 1, names[i]>>]
        /\ \A f \in Archives : f.name[2] = names
        /\ \A f \in files : f.name[1] = "cen" => (f.name[2] = names /\ f.content = names)

\* C5: np.savez is called at most once per run, and only after all n_iter
\* iterations completed; after an exception nothing of the run goes on: no
\* archive is written, and with a failure of the causal search or of the
\* estimator the run stays at the iteration that failed.
C5_ArchiveOnceAfterAllIterations ==
    /\ saved <= 1
    /\ saved = 1 <=> pc = "done"
    /\ saved = 1 =>
          /\ err = NoErr
          /\ k = boot_iter
          /\ Len(all_val_matrices) = boot_iter
          /\ Len(all_ace) = boot_iter
          /\ Len(all_acs) = boot_iter
    /\ err # NoErr => (pc \in {"raised", "df_returned", "returned"} /\ saved = 0)
    /\ (pc = "raised" /\ err.at \in {"construct_causal_graph", "linear_estimator"}) =>
          /\ k < boot_iter
          /\ Len(all_val_matrices) = k

\* The causal search failed in the second iteration, after a complete first.
C5_Witness ==
    /\ pc = "raised"
    /\ err.at = "construct_causal_graph"
    /\ k = 1
    /\ Len(all_val_matrices) = 1
    /\ saved = 0

\* C6: a bootstrap run made after another one on the same object (same
\* mapping, block size and n_iter) draws the same sequence of offsets.
C6_SameOffsetsAgain == (prev_inds.has /\ Drawn) => rnd_inds = prev_inds.inds

\* A second run that drew two different offsets from the generator.
C6_Witness ==
    /\ prev_inds.has
    /\ pc = "loop"
    /\ Len(rnd_inds) >= 2
    /\ rnd_inds[1] # rnd_inds[2]
    /\ rng_state.pos > 0

\* m lists, strictly increasing, the names that are in both a and b.
SortedIntersection(m, a, b) ==
    /\ \A i, j \in 1..Len(m) : i < j => m[i] < m[j]
    /\ Range(m) = Range(a) \cap Range(b)

\* Column i of the dataframe is the series of its i-th name in M.
ColumnsHold(df, M) ==
    \A i \in 1..Len(df.var_names) :
       [t \in 1..Len(df.values) |-> df.values[t][i]] = Get(M, df.var_names[i])

\* M with its first two entries exchanged.
Swap12(M) ==
    IF Len(M) < 2 THEN M
    ELSE [i \in 1..Len(M) |-> IF i = 1 THEN M[2] ELSE IF i = 2 THEN M[1] ELSE M[i]]

\* What C7 says of a dataframe df built from the mapping M.
SortedBuild(df, M) ==
    /\ df.exc = "None" =>
          /\ SortedIntersection(df.var_names, var_names, Keys(M))
          /\ ColumnsHold(df, M)
    /\ generate_dataframe(var_names, Rot(M, 1)) = df
    /\ generate_dataframe(var_names, Swap12(M)) = df

\* C7: the names generate_dataframe returns are the sorted, duplicate-free
\* intersection of var_names and the keys of its argument, column i holds the
\* series of the i-th name, and the result is the same when the insertion
\* order of the argument is rotated or its first two entries are exchanged
\* (the two generate every permutation).
C7_SortedIntersectionColumns ==
    /\ pc = "df_returned" => SortedBuild(ret, call_arg)
    /\ pc = "built" => SortedBuild(dataframe, D)

\* A direct call on an argument that is not in sorted order, lacks a
\* configured name and has a name that is not configured.
C7_Witness ==
    /\ pc = "df_returned"
    /\ ret.exc = "None"
    /\ Len(ret.var_names) >= 2
    /\ Len(ret.var_names) < Len(var_names)
    /\ 0 \in Range(Keys(call_arg))
    /\ Keys(call_arg) # sort(Keys(call_arg))

\* The names generate_dataframe selects from M.
Selected(M) == Range(var_names) \cap Range(Keys(M))

\* Some name is selected and all selected series have the same length.
Aligned(M) ==
    /\ Selected(M) # {}
    /\ \A a, b \in Selected(M) : Len(Get(M, a)) = Len(Get(M, b))

\* C8: generate_dataframe returns a dataset exactly when the intersection
\* is non-empty and the selected series have one length, and then with all
\* their rows; otherwise it raises and returns nothing, and in a bootstrap
\* run no causal search and no estimation follows.
C8_BuildFailsOnEmptyOrMisaligned ==
    /\ pc = "df_returned" =>
          /\ ret.exc = "None" <=> Aligned(call_arg)
          /\ ret.exc = "None" =>
                \A a \in Selected(call_arg) : Len(ret.values) = Len(Get(call_arg, a))
          /\ ret.exc # "None" =>
                (ret.values = <<>> /\ err = [exc |-> "ValueError", at |-> "generate_dataframe"])
    /\ pc \in {"built", "deleted", "searched", "fitted"} => Aligned(D)
    /\ pc = "built" => \A a \in Selected(D) : Len(dataframe.values) = Len(Get(D, a))
    /\ (pc = "raised" /\ err.at = "generate_dataframe") =>
          /\ ~Aligned(D)
          /\ err.exc = "ValueError"
          /\ dataframe = NoDataframe
          /\ saved = 0
    /\ ~Aligned(D) =>
          /\ ~sig_parents.set
          /\ ~val_matrix.set
          /\ all_val_matrices = <<>>

\* A bootstrap run stopped by series of different lengths.
C8_Witness ==
    /\ pc = "raised"
    /\ err.at = "generate_dataframe"
    /\ Selected(D) # {}
    /\ \E a, b \in Selected(D) : Len(Get(D, a)) # Len(Get(D, b))

\* C9: the source mapping is the one the object was constructed with, and the
\* dataframe built at the start of every iteration is the full dataset of T
\* rows, whatever earlier iterations removed.
C9_SourceUntouchedFreshDataset ==
    /\ D = D0
    /\ pc = "built" =>
          /\ Len(dataframe.values) = T
          /\ dataframe.values = FullRows(D, T)

\* The second iteration has built its dataframe after the first removed rows.
C9_Witness ==
    /\ pc = "built"
    /\ k = 1
    /\ Len(all_val_matrices[1].on) < T

\* C10: an iteration completes only with exactly four variables; with any
\* other number the first iteration raises TypeError in the report of the
\* metric vectors, after search and estimation succeeded and the results were
\* appended, and the run writes no archive.
C10_FourVariablesOnly ==
    /\ k >= 1 => Len(dataframe.var_names) = FormatSlots
    /\ (pc = "raised" /\ err.at = "report") =>
          /\ Len(dataframe.var_names) # FormatSlots
          /\ err.exc = "TypeError"
          /\ k = 0
          /\ sig_parents.set
          /\ linear_mediator.fitted
          /\ Len(all_ace) = 1
          /\ saved = 0
    /\ (Len(D) # FormatSlots /\ boot_iter >= 1) => (pc # "done" /\ saved = 0)

\* The report raised for a dataset of two or three variables.
C10_Witness ==
    /\ pc = "raised"
    /\ err.at = "report"
    /\ Len(dataframe.var_names) >= 2
    /\ Len(dataframe.var_names) < FormatSlots

====
